---- MODULE Spec2Model ----
(***************************************************************************)
(* A model of the resource-resolution and caching core of the typst CLI:   *)
(*   - the global package-path interner (typst-syntax/src/file.rs),        *)
(*   - virtual paths and their lexical algorithms (file.rs),               *)
(*   - the asset mirror and the HTTP fetcher (typst-cli/src/remote.rs),    *)
(*   - the system world with its fingerprinted file slots (world.rs).      *)
(*                                                                         *)
(* Five specifications share the module:                                   *)
(*   SpecIntern  concurrent FileId::new / FileId::join on the interner,    *)
(*   Spec        one SystemWorld session over a fixed set of file ids,     *)
(*   SpecFetch   the fetch protocol of HTTPRemoteAssetFetcher, stepwise,   *)
(*   SpecPure    single calls of the pure path and identity functions,     *)
(*   SpecLock    concurrent source() / file() requests on one session.     *)
(***************************************************************************)
EXTENDS Integers, Sequences, FiniteSets, TLC

VARIABLES
  \* ---- the interner (static INTERNER, file.rs:17-24)
  to_id,      \* HashMap<Pair, FileId>: a function from pairs to numbers
  from_id,    \* Vec<Pair>: the pair of id n is from_id[n + 1]
  pc,         \* per thread: where it stands inside FileId::new
  arg,        \* per thread: the pair it is interning
  calls,      \* per thread: FileId::new / join calls already returned
  returned,   \* history: every (pair, id) a call has returned
  aborted,    \* a thread panicked with "out of file ids"
  \* ---- the system world (world.rs)
  slots,      \* HashMap<FileId, FileSlot>: a function from ids to slots
  now,        \* OnceLock<DateTime>: <<>> or <<timestamp>>
  fsys,       \* the file system: real path -> "absent" | "dir" | bytes
  crashed,    \* the process died of a panic
  last,       \* history: what the last request did and returned
  nres,       \* history: system_path calls made by source()/file() per id
              \*          and kind since the last reset
  made,       \* history: the ids a Source value has been created for
  \* ---- the fetch protocol (remote.rs)
  fpc,        \* where the running fetch stands
  furl,       \* the URL being fetched
  fbody,      \* the body the server is sending
  ftemp,      \* the temporary file: <<>> or <<bytes written so far>>
  fprev,      \* history: what the destination held when the fetch began
  fcall,      \* history: the answer to the GET of the running or last fetch
  fres,       \* history: the outcome the last fetch reported
  fetches,    \* history: number of fetches finished
  \* ---- the pure functions (paths, mirror paths, package identities)
  pin,        \* the arguments of the call
  pout,       \* <<>> before the call, <<its result>> after it
  \* ---- the slots mutex under concurrent requests (world.rs:199-205)
  lock,       \* Mutex<HashMap<..>>: 0 when free, else the thread holding it
  th,         \* per thread: where it stands inside SystemWorld::slot
  news        \* history: FileSlot::new calls per id

internVars == <<to_id, from_id, pc, arg, calls, returned, aborted>>
worldVars  == <<slots, now, fsys, crashed, last, nres, made>>
fetchVars  == <<fpc, furl, fbody, ftemp, fprev, fcall, fres, fetches>>
pureVars   == <<pin, pout>>
lockVars   == <<lock, th, news>>
\* What a step of the fetcher leaves alone.
fetchFrame == <<internVars, slots, now, crashed, last, nres, made, pureVars, lockVars>>
vars       == <<internVars, worldVars, fetchVars, pureVars, lockVars>>

(***************************************************************************)
(* Option<T> is a sequence of length at most one.                          *)
(***************************************************************************)
None == <<>>
Some(v) == <<v>>
IsSome(o) == o # <<>>
Unwrap(o) == o[1]

Last(s) == s[Len(s)]
Front(s) == SubSeq(s, 1, Len(s) - 1)

(***************************************************************************)
(* Path text.  A string handed to Path / Url is kept as its parse: either  *)
(* URL text (scheme, host, port, path segments, query, fragment) or plain  *)
(* path text (absolute or not, the segments between the slashes).  A       *)
(* segment may be empty ("//"), "." or "..".                               *)
(***************************************************************************)
PathStr(abs, segs) ==
  [isurl |-> FALSE, scheme |-> "", host |-> "", port |-> 0,
   abs |-> abs, segs |-> segs, query |-> "", frag |-> ""]

UrlStr(scheme, host, port, segs, query) ==
  [isurl |-> TRUE, scheme |-> scheme, host |-> host, port |-> port,
   abs |-> TRUE, segs |-> segs, query |-> query, frag |-> ""]

\* Url: the parsed value held by a VirtualPath.
MkUrl(scheme, host, port, segs, query) ==
  [scheme |-> scheme, host |-> host, port |-> port, segs |-> segs,
   query |-> query, frag |-> ""]

SpecialSchemes == {"http", "https", "file"}

\* The url crate removes dot segments of a special scheme's path while
\* parsing: "." is dropped, ".." drops the segment before it (never the root).
RECURSIVE RemoveDots(_, _)
RemoveDots(segs, out) ==
  IF segs = <<>> THEN out
  ELSE LET s == Head(segs) IN
       IF s = "." THEN RemoveDots(Tail(segs), out)
       ELSE IF s = ".." THEN
              RemoveDots(Tail(segs), IF out = <<>> THEN out ELSE Front(out))
       ELSE RemoveDots(Tail(segs), Append(out, s))

\* Url::parse: Ok exactly for URL text.  The host "localhost" of a file URL
\* is dropped.
UrlParse(s) ==
  IF s.isurl
    THEN Some([MkUrl(s.scheme,
                     IF s.scheme = "file" /\ s.host = "localhost"
                       THEN "" ELSE s.host,
                     s.port,
                     IF s.scheme \in SpecialSchemes
                       THEN RemoveDots(s.segs, <<>>) ELSE s.segs,
                     s.query) EXCEPT !.frag = s.frag])
    ELSE None

\* Url::set_path on a special-scheme URL: the new path is parsed again.
UrlSetPath(u, p) == [u EXCEPT !.segs = RemoveDots(p.segs, <<>>)]

\* Path::components: empty segments and "." vanish, ".." and names stay.
Components(p) == SelectSeq(p.segs, LAMBDA s : s # "" /\ s # ".")

\* Path::parent: the path without its last component; None for the root.
PathParent_Self(p) == Some(PathStr(p.abs, Components(p)))
PathParent(p) ==
  LET c == Components(p) IN
  IF c = <<>> THEN None ELSE Some(PathStr(p.abs, Front(c)))

\* Path::join: an absolute argument replaces the base.
PathJoin(base, p) ==
  IF p.abs THEN PathStr(TRUE, p.segs)
  ELSE PathStr(base.abs, base.segs \o p.segs)

(***************************************************************************)
(* VirtualPath (file.rs:121-235)                                           *)
(***************************************************************************)
\* The loop of new_impl over the components of the input (file.rs:141-153).
RECURSIVE NormalizeComponents(_, _)
NormalizeComponents(comps, out) ==
  IF comps = <<>> THEN out
  ELSE LET c == Head(comps) IN
       IF c = ".." THEN
         IF out # <<>> /\ Last(out) # ".."
           THEN NormalizeComponents(Tail(comps), Front(out))
           ELSE NormalizeComponents(Tail(comps), Append(out, c))
       ELSE NormalizeComponents(Tail(comps), Append(out, c))

\* Url::from_file_path: the components are written out as they are.
UrlFromFilePath(comps) == MkUrl("file", "", 0, comps, "")

new_impl(s) ==
  IF IsSome(UrlParse(s)) THEN Unwrap(UrlParse(s))
  ELSE UrlFromFilePath(NormalizeComponents(Components(s), <<>>))

is_remote(v) == v.scheme = "http" \/ v.scheme = "https"

as_rooted_path(v) == PathStr(TRUE, v.segs)

\* Path::strip_prefix: the components of base are matched one by one against
\* those of p, which are not normalised (".." is a component like any
\* other); Ok is the rest of p, a relative path.
strip_prefix_Normalized(p, base) ==
  LET c == NormalizeComponents(Components(p), <<>>) IN
  IF p.abs /\ Len(base) <= Len(c) /\ SubSeq(c, 1, Len(base)) = base
    THEN Some(PathStr(FALSE, SubSeq(c, Len(base) + 1, Len(c))))
    ELSE None
strip_prefix(p, base) ==
  LET c == Components(p) IN
  IF p.abs /\ Len(base) <= Len(c) /\ SubSeq(c, 1, Len(base)) = base
    THEN Some(PathStr(FALSE, SubSeq(c, Len(base) + 1, Len(c))))
    ELSE None

\* within_root (file.rs:162-164); root is an absolute real path.
within_root(p, root) ==
  LET rest == strip_prefix(p, root) IN
  IF IsSome(rest) THEN Some(new_impl(Unwrap(rest))) ELSE None

\* `self.0.to_file_path().unwrap()` (file.rs:171): to_file_path is an Err
\* for a URL with a host other than localhost, whatever its scheme.
RootedPathPanics(v) == ~is_remote(v) /\ v.host \notin {"", "localhost"}

VirtualPath_join(v, s) ==
  IF IsSome(UrlParse(s)) THEN Unwrap(UrlParse(s))
  ELSE IF is_remote(v) THEN
    LET parent == PathParent(PathStr(TRUE, v.segs))
        base   == IF IsSome(parent) THEN Unwrap(parent) ELSE PathStr(TRUE, <<>>)
    IN UrlSetPath(v, PathJoin(base, s))
  ELSE
    LET parent == PathParent(as_rooted_path(v)) IN
    IF IsSome(parent) THEN new_impl(PathJoin(Unwrap(parent), s))
    ELSE new_impl(s)

\* Length in bytes of the text of an absolute real path.
RECURSIVE OsLen(_)
OsLen(comps) ==
  IF comps = <<>> THEN 0 ELSE 1 + Len(Head(comps)) + OsLen(Tail(comps))

RootLen_Zero(root) == 0
RootLen(root) == IF root = <<>> THEN 1 ELSE OsLen(root)

\* The loop of resolve (file.rs:190-203); None when a ".." shortens the
\* result below the root.
RECURSIVE ResolveLoop(_, _, _)
ResolveLoop(comps, out, root_len) ==
  IF comps = <<>> THEN Some(out)
  ELSE LET c == Head(comps) IN
       IF c = ".." THEN
         LET popped == IF out = <<>> THEN out ELSE Front(out) IN
         IF RootLen(popped) < root_len THEN None
         ELSE ResolveLoop(Tail(comps), popped, root_len)
       ELSE ResolveLoop(Tail(comps), Append(out, c), root_len)

resolve(v, root) ==
  ResolveLoop(Components(as_rooted_path(v)), root, RootLen(root))

(***************************************************************************)
(* The interner: FileId::new, package, vpath, join (file.rs:35-99)         *)
(***************************************************************************)
NThreads == 2
MaxCalls == 2
IdLimit == 65536

Threads == 1 .. NThreads

NoPackage == None
Preview == Some([namespace |-> "preview", name |-> "pkg",
                 version |-> <<0, 1, 0>>])

MkPair(package, path) == [package |-> package, path |-> path]

\* Texts the callers pass to VirtualPath::new and FileId::join.
MainText   == PathStr(TRUE, <<"main.typ">>)
LibText    == PathStr(FALSE, <<".", "lib", "..", "lib.typ">>)
UpText     == PathStr(FALSE, <<"..", "up.typ">>)
RemoteText == UrlStr("https", "h.org", 0, <<"a", "b.typ">>, "")

NewTexts  == {MainText, LibText, RemoteText}
JoinTexts == {LibText, UpText, RemoteText}

\* FileId::pair, package and vpath: a read of from_id.
pair(id) == from_id[id + 1]
package(id) == pair(id).package
vpath(id) == pair(id).path

\* The number the write section gives the new entry (file.rs:49).
NextNum_LenOfToId == Cardinality(DOMAIN to_id)
NextNum == Len(from_id)

\* HashMap::insert: an equal key keeps its place and takes the new value.
MapInsert(m, k, v) ==
  [x \in DOMAIN m \cup {k} |-> IF x = k THEN v ELSE m[x]]

Return(t, p, id) ==
  /\ returned' = returned \cup {[pair |-> p, id |-> id]}
  /\ calls' = [calls EXCEPT ![t] = @ + 1]
  /\ pc' = [pc EXCEPT ![t] = "idle"]

\* A caller enters FileId::new(package, VirtualPath::new(text)).
CallNew(t) ==
  /\ ~aborted /\ pc[t] = "idle" /\ calls[t] < MaxCalls
  /\ \E pk \in {NoPackage, Preview}, s \in NewTexts :
       arg' = [arg EXCEPT ![t] = MkPair(pk, new_impl(s))]
  /\ pc' = [pc EXCEPT ![t] = "lookup"]
  /\ UNCHANGED <<to_id, from_id, calls, returned, aborted, worldVars, fetchVars, pureVars, lockVars>>

\* A caller enters id.join(text) for a handle it was given (file.rs:81-83).
CallJoin(t) ==
  /\ ~aborted /\ pc[t] = "idle" /\ calls[t] < MaxCalls
  /\ \E r \in returned, s \in JoinTexts :
       arg' = [arg EXCEPT ![t] =
                 MkPair(package(r.id), VirtualPath_join(vpath(r.id), s))]
  /\ pc' = [pc EXCEPT ![t] = "lookup"]
  /\ UNCHANGED <<to_id, from_id, calls, returned, aborted, worldVars, fetchVars, pureVars, lockVars>>

\* The optimistic lookup under the read lock (file.rs:44-46).
Lookup(t) ==
  /\ ~aborted /\ pc[t] = "lookup"
  /\ IF arg[t] \in DOMAIN to_id
       THEN Return(t, arg[t], to_id[arg[t]])
       ELSE /\ pc' = [pc EXCEPT ![t] = "insert"]
            /\ UNCHANGED <<calls, returned>>
  /\ UNCHANGED <<to_id, from_id, arg, aborted, worldVars, fetchVars, pureVars, lockVars>>

\* The insertion under the write lock (file.rs:48-58).
Insert(t) ==
  /\ ~aborted /\ pc[t] = "insert"
  /\ IF NextNum >= IdLimit
       THEN /\ aborted' = TRUE
            /\ UNCHANGED <<to_id, from_id, pc, calls, returned>>
       ELSE /\ to_id' = MapInsert(to_id, arg[t], NextNum)
            /\ from_id' = Append(from_id, arg[t])
            /\ Return(t, arg[t], NextNum)
            /\ UNCHANGED aborted
  /\ UNCHANGED <<arg, worldVars, fetchVars, pureVars, lockVars>>

InternInit ==
  /\ to_id = << >>
  /\ from_id = << >>
  /\ pc = [t \in Threads |-> "idle"]
  /\ arg = [t \in Threads |-> MkPair(NoPackage, new_impl(MainText))]
  /\ calls = [t \in Threads |-> 0]
  /\ returned = {}
  /\ aborted = FALSE

InternNext ==
  \E t \in Threads : CallNew(t) \/ CallJoin(t) \/ Lookup(t) \/ Insert(t)

(***************************************************************************)
(* Bytes, results and fingerprints                                         *)
(***************************************************************************)
\* A byte string is a sequence over "a", "b", "BOM" (the three bytes of the
\* UTF-8 byte-order mark) and "BAD" (a byte that is not valid UTF-8).
NoVal == [none |-> TRUE]
Ok(v) == [ok |-> TRUE, val |-> v, err |-> ""]
Err(e) == [ok |-> FALSE, val |-> NoVal, err |-> e]

\* FileResult<Vec<u8>> and FileResult<&str>: the value is a sequence.
RdOk(b) == [ok |-> TRUE, val |-> b, err |-> ""]
RdErr(e) == [ok |-> FALSE, val |-> <<>>, err |-> e]

\* FileResult<PathBuf>.
PathOk(p) == [ok |-> TRUE, path |-> p, err |-> ""]
PathErr(e) == [ok |-> FALSE, path |-> <<>>, err |-> e]

ByteCode(b) ==
  CASE b = "a" -> 1 [] b = "b" -> 2 [] b = "BOM" -> 3 [] OTHER -> 4

ErrCode(e) ==
  CASE e = "NotFound" -> 0 [] e = "IsDirectory" -> 1 [] e = "AccessDenied" -> 2
    [] e = "Package" -> 3 [] OTHER -> 4

RECURSIVE Encode(_)
Encode(bytes) ==
  IF bytes = <<>> THEN 0 ELSE ByteCode(Head(bytes)) + 5 * Encode(Tail(bytes))

\* typst::util::hash128 of a read result.  The 128-bit SipHash is taken to
\* be free of collisions on the results of the model: it is an injective
\* code of the result.  The empty file takes the code 0, the fingerprint a
\* new cell starts with.
hash128(rd) == IF rd.ok THEN 2 * Encode(rd.val) ELSE 2 * ErrCode(rd.err) + 1

\* decode_utf8 (world.rs:361-364): strip a leading BOM, then validate.
decode_utf8(buf) ==
  LET b == IF buf # <<>> /\ Head(buf) = "BOM" THEN Tail(buf) ELSE buf IN
  IF \E i \in DOMAIN b : b[i] = "BAD" THEN RdErr("InvalidUtf8") ELSE RdOk(b)

(***************************************************************************)
(* The file system                                                         *)
(***************************************************************************)
Absent == [kind |-> "absent", bytes |-> <<>>]
Dir == [kind |-> "dir", bytes |-> <<>>]
File(b) == [kind |-> "file", bytes |-> b]

FsGet(fs, p) == IF p \in DOMAIN fs THEN fs[p] ELSE Absent
FsPut(fs, p, st) == [x \in DOMAIN fs \cup {p} |-> IF x = p THEN st ELSE fs[x]]

\* read (world.rs:351-358).
read(fs, p) ==
  LET st == FsGet(fs, p) IN
  IF st.kind = "absent" THEN RdErr("NotFound")
  ELSE IF st.kind = "dir" THEN RdErr("IsDirectory")
  ELSE RdOk(st.bytes)

(***************************************************************************)
(* AssetMirror and HTTPRemoteAssetFetcher (remote.rs)                      *)
(***************************************************************************)
MirrorRoot == <<"tmp", "typst-001">>

can_mirror(url) == url.host # ""

\* &url.path()[1..]: the text after the first slash of the URL path.  When
\* the path starts with two slashes that text is itself absolute.
UrlPathTail(url) ==
  IF url.segs # <<>> /\ Head(url.segs) = ""
    THEN PathStr(TRUE, Tail(url.segs))
    ELSE PathStr(FALSE, url.segs)

\* path_for (remote.rs:25-29), as the components of the real path.
path_for(url) ==
  Components(PathJoin(PathJoin(PathStr(TRUE, MirrorRoot),
                               PathStr(FALSE, <<url.host>>)),
                      UrlPathTail(url)))

\* What the network and the local file system do to one fetch:
\*   call     "ok" | "status" | "transport"   the answer to the GET
\*   body     the bytes of the response
\*   temp     NamedTempFile::new succeeds
\*   copy     io::copy reaches the end of the body
\*   mkdir    fs::create_dir_all succeeds
\*   rename   fs::rename succeeds
\*   remove   fs::remove_file succeeds
Net(call, body, temp, copy, mkdir, rename, remove) ==
  [call |-> call, body |-> body, temp |-> temp, copy |-> copy,
   mkdir |-> mkdir, rename |-> rename, remove |-> remove]

NetOk(body) == Net("ok", body, TRUE, TRUE, TRUE, TRUE, TRUE)

FetchOk(p, fs) == [ok |-> TRUE, path |-> p, err |-> "", fs |-> fs]
FetchErr(e, fs) == [ok |-> FALSE, path |-> <<>>, err |-> e, fs |-> fs]

\* The cleanup after a failed rename (remote.rs:127): `_ = fs::remove_file(to)`.
\* remove_file does not remove a directory.
RemoveFile(fs, to, net) ==
  IF net.remove /\ FsGet(fs, to).kind = "file" THEN FsPut(fs, to, Absent) ELSE fs

Prefixes(p) == {SubSeq(p, 1, k) : k \in 1 .. Len(p)}

\* fs::create_dir_all (remote.rs:120): fails when a file is in the way.
MkdirOk(fs, dir, net) ==
  net.mkdir /\ \A q \in Prefixes(dir) : FsGet(fs, q).kind # "file"

MkDirs(fs, dir) ==
  [x \in DOMAIN fs \cup Prefixes(dir) |-> IF x \in Prefixes(dir) THEN Dir ELSE fs[x]]

\* fs::rename (remote.rs:125) replaces the destination in one step; it
\* cannot replace a directory by a file.
RenameOk(fs, to, net) == net.rename /\ FsGet(fs, to).kind # "dir"

Rename_Truncated(fs, bytes, to) == FsPut(fs, to, File(Front(bytes)))
Rename_KeepsExisting(fs, bytes, to) ==
  IF FsGet(fs, to).kind = "file" THEN fs ELSE FsPut(fs, to, File(bytes))
Rename(fs, bytes, to) == FsPut(fs, to, File(bytes))

\* A rename that fails leaves the destination as it was.
FailedRename_Torn(fs, bytes, to) ==
  IF FsGet(fs, to).kind = "dir" THEN fs ELSE FsPut(fs, to, File(Front(bytes)))
FailedRename(fs, bytes, to) == fs

\* _move_file (remote.rs:118-134) of a temporary file holding `bytes`.
MoveFile(fs, bytes, to, net) ==
  IF ~MkdirOk(fs, Front(to), net) THEN FetchErr("CreateDir", fs)
  ELSE LET fs1 == MkDirs(fs, Front(to)) IN
       IF ~RenameOk(fs1, to, net)
         THEN FetchErr("Move", RemoveFile(FailedRename(fs1, bytes, to), to, net))
         ELSE FetchOk(to, Rename(fs1, bytes, to))

\* download_response (remote.rs:108-116, 137-142).
download_response(fs, url, net) ==
  IF ~net.temp THEN FetchErr("TempFile", fs)
  ELSE IF ~net.copy THEN FetchErr("Download", fs)
  ELSE MoveFile(fs, net.body, path_for(url), net)

\* fetch (remote.rs:144-151).
fetch(fs, url, net) ==
  IF net.call = "ok" THEN download_response(fs, url, net)
  ELSE IF net.call = "status" THEN FetchErr("Status", fs)
  ELSE FetchErr("Connection", fs)

(***************************************************************************)
(* system_path (world.rs:326-348)                                          *)
(***************************************************************************)
ProjectRoot == <<"proj">>
PackageRoot == <<"cache", "pkg">>

SysPath(res, fs, panic, fetched, prepared) ==
  [res |-> res, fs |-> fs, panic |-> panic, fetched |-> fetched,
   prepared |-> prepared]

\* `id.vpath().resolve(root).ok_or(FileError::AccessDenied)` (world.rs:338).
resolve_or_deny(v, root) ==
  IF RootedPathPanics(v) THEN PathErr("panic")
  ELSE LET r == resolve(v, root)
       IN IF IsSome(r) THEN PathOk(Unwrap(r)) ELSE PathErr("AccessDenied")

\* system_path_old: prepare_package answers with the package root when
\* pkgok, with a failure otherwise.
system_path_old(fs, id, pkgok) ==
  IF IsSome(package(id)) /\ ~pkgok
    THEN SysPath(PathErr("Package"), fs, FALSE, FALSE, TRUE)
    ELSE LET root == IF IsSome(package(id)) THEN PackageRoot ELSE ProjectRoot
             res == resolve_or_deny(vpath(id), root)
         IN SysPath(res, fs, ~res.ok /\ res.err = "panic", FALSE,
                    IsSome(package(id)))

\* What `fetcher.fetch(&url).unwrap()` (world.rs:345) does with a failure.
UnwrapPanics(f) == ~f.ok

system_path_NoRemote(fs, id, net, pkgok) == system_path_old(fs, id, pkgok)
system_path(fs, id, net, pkgok) ==
  IF is_remote(vpath(id))
    THEN LET f == fetch(fs, vpath(id), net) IN
         IF UnwrapPanics(f)
           THEN SysPath(PathErr(f.err), f.fs, TRUE, TRUE, FALSE)
           ELSE SysPath(IF f.ok THEN PathOk(f.path) ELSE PathErr(f.err),
                        f.fs, FALSE, TRUE, FALSE)
    ELSE system_path_old(fs, id, pkgok)

(***************************************************************************)
(* SlotCell and FileSlot (world.rs:208-320)                                *)
(***************************************************************************)
\* SlotCell::new.
SlotCell_new == [data |-> None, fingerprint |-> 0, accessed |-> FALSE]

\* SlotCell::reset.
SlotCell_reset_Clears(cell) == SlotCell_new
SlotCell_reset(cell) == [cell EXCEPT !.accessed = FALSE]

\* FileSlot::new.
FileSlot_new(id) == [id |-> id, source |-> SlotCell_new, file |-> SlotCell_new]

\* FileSlot::accessed.
FileSlot_accessed(slot) == slot.source.accessed \/ slot.file.accessed

\* FileSlot::reset.
FileSlot_reset(slot) ==
  [slot EXCEPT !.source = SlotCell_reset(@), !.file = SlotCell_reset(@)]

\* Source::new(id, text) and Source::replace(text).
Source_new(id, text) == [id |-> id, text |-> text]
Source_replace(src, text) == [src EXCEPT !.text = text]

\* The closure FileSlot::source hands to get_or_init (world.rs:242-252).
SourceTransform(id, data, prev) ==
  LET text == decode_utf8(data) IN
  IF ~text.ok THEN Err(text.err)
  ELSE IF IsSome(prev) THEN Ok(Source_replace(Unwrap(prev), text.val))
  ELSE Ok(Source_new(id, text.val))

\* The closure FileSlot::file hands to get_or_init (world.rs:259).
FileTransform(id, data, prev) == Ok([bytes |-> data])

Transform(kind, id, data, prev) ==
  IF kind = "source" THEN SourceTransform(id, data, prev)
  ELSE FileTransform(id, data, prev)

\* `mem::replace(&mut self.accessed, true)` (world.rs:297).
MarkAccessed_Forgets(cell) == cell
MarkAccessed(cell) == [cell EXCEPT !.accessed = TRUE]

\* world.rs:297-301: the cell was accessed in this compilation and holds data.
CacheHit_Never(cell) == FALSE
CacheHit(cell) == cell.accessed /\ IsSome(cell.data)

\* world.rs:308-312: the stored fingerprint equals the new one and the cell
\* holds data.
FingerprintHit_Never(cell, fingerprint) == FALSE
FingerprintHit_DataOnly(cell, fingerprint) == IsSome(cell.data)
FingerprintHit_Differs(cell, fingerprint) ==
  cell.fingerprint # fingerprint /\ IsSome(cell.data)
FingerprintHit(cell, fingerprint) ==
  cell.fingerprint = fingerprint /\ IsSome(cell.data)

\* `self.data.take().and_then(Result::ok)` (world.rs:314).
Prev_Nothing(cell) == None
Prev(cell) ==
  IF IsSome(cell.data) /\ Unwrap(cell.data).ok
    THEN Some(Unwrap(cell.data).val) ELSE None

Outcome(cell, result, hit, sp, rd, transformed, created) ==
  [cell |-> cell, result |-> result, hit |-> hit, sp |-> sp, read |-> rd,
   transformed |-> transformed, created |-> created]

NoSysPath(fs) == SysPath(PathErr(""), fs, FALSE, FALSE, FALSE)

\* SlotCell::get_or_init (world.rs:291-319).  `sp` is what the `path`
\* closure yields if it is called.
get_or_init(cell, kind, id, fs, sp) ==
  IF CacheHit(cell)
    THEN Outcome(cell, Unwrap(cell.data), "cache", NoSysPath(fs), None,
                 FALSE, FALSE)
  ELSE IF sp.panic
    THEN Outcome(MarkAccessed(cell), Err("panic"), "panic", sp,
                 None, FALSE, FALSE)
  ELSE
    LET rd == IF sp.res.ok THEN read(sp.fs, sp.res.path) ELSE RdErr(sp.res.err)
        fingerprint == hash128(rd)
    IN IF FingerprintHit(cell, fingerprint)
         THEN Outcome([MarkAccessed(cell) EXCEPT !.fingerprint = fingerprint],
                      Unwrap(cell.data), "fingerprint", sp, Some(rd),
                      FALSE, FALSE)
         ELSE LET prev == Prev(cell)
                  value == IF rd.ok THEN Transform(kind, id, rd.val, prev)
                           ELSE Err(rd.err)
              IN Outcome([MarkAccessed(cell) EXCEPT !.data = Some(value),
                                                    !.fingerprint = fingerprint],
                         value, "miss", sp, Some(rd), rd.ok,
                         rd.ok /\ kind = "source" /\ value.ok /\ ~IsSome(prev))

(***************************************************************************)
(* SystemWorld (world.rs:24-206)                                           *)
(***************************************************************************)
MaxClock == 1
MaxSlots == 2

Kinds == {"source", "file"}

\* The pairs interned before the session serves requests: the main file, a
\* file of a package, a remote file.
WorldPairs ==
  << MkPair(NoPackage, new_impl(MainText)),
     MkPair(Preview, new_impl(LibText)),
     MkPair(NoPackage, new_impl(RemoteText)) >>

Ids == 0 .. Len(from_id) - 1

\* The local files: the main file, which an editor changes under the
\* session, and a file of the package, which is not valid UTF-8.
MainPath == ProjectRoot \o <<"main.typ">>
LibPath == PackageRoot \o <<"lib.typ">>
FileStates == {Absent, File(<<>>), File(<<"a">>)}

\* What the network does to a fetch made by the session.
NetDown == Net("transport", <<>>, TRUE, TRUE, TRUE, TRUE, TRUE)
WorldNets == {NetOk(<<"BOM", "a">>), NetDown}

\* The answers that matter to the resolution of `ids`: the network's when
\* one of them is remote, the package resolver's when one is in a package.
NetsFor(ids) ==
  IF \E id \in ids : is_remote(vpath(id)) THEN WorldNets ELSE {NetDown}
PkgFor(ids) ==
  IF \E id \in ids : ~is_remote(vpath(id)) /\ IsSome(package(id))
    THEN BOOLEAN ELSE {TRUE}

NoCount == [source |-> 0, file |-> 0]

\* SystemWorld::slot (world.rs:199-205): entry(id).or_insert_with.
SlotOf(id) == IF id \in DOMAIN slots THEN slots[id] ELSE FileSlot_new(id)

SlotPut(id, slot) ==
  [x \in DOMAIN slots \cup {id} |-> IF x = id THEN slot ELSE slots[x]]

\* World::source and World::file (world.rs:169-175), under the slots lock.
Load(id, kind) ==
  /\ ~crashed
  /\ id \in DOMAIN slots \/ Cardinality(DOMAIN slots) < MaxSlots
  /\ \E net \in NetsFor({id}), pkgok \in PkgFor({id}) :
     \E slot \in {SlotOf(id)}, sp \in {system_path(fsys, id, net, pkgok)} :
     \E o \in {get_or_init(slot[kind], kind, id, fsys, sp)} :
       LET resolved == o.hit # "cache"
       IN /\ slots' = SlotPut(id, [slot EXCEPT ![kind] = o.cell])
          /\ fsys' = o.sp.fs
          /\ crashed' = (o.hit = "panic")
          /\ nres' = [nres EXCEPT ![id][kind] = IF resolved THEN @ + 1 ELSE @]
          /\ made' = IF o.created THEN made \cup {id} ELSE made
          /\ last' = [op |-> kind, id |-> id, hit |-> o.hit,
                      before |-> slot[kind], resolved |-> resolved,
                      fetched |-> o.sp.fetched, prepared |-> o.sp.prepared,
                      path |-> o.sp.res, read |-> o.read, transformed |-> o.transformed,
                      created |-> o.created, remade |-> o.created /\ id \in made,
                      result |-> o.result]
  /\ UNCHANGED <<now, internVars, fetchVars, pureVars, lockVars>>

SourceReq == \E id \in Ids : Load(id, "source")
FileReq == \E id \in Ids : Load(id, "file")

\* `self.now.take()` (world.rs:136).
TakeNow_Keeps(cur) == cur
TakeNow(cur) == None

\* SystemWorld::reset (world.rs:132-137).
Reset ==
  /\ ~crashed
  /\ slots' = [id \in DOMAIN slots |-> FileSlot_reset(slots[id])]
  /\ now' = TakeNow(now)
  /\ nres' = [id \in DOMAIN nres |-> NoCount]
  /\ last' = [op |-> "reset", hadnow |-> IsSome(now),
              accessed |-> {id \in DOMAIN slots : FileSlot_accessed(slots[id])}]
  /\ UNCHANGED <<fsys, crashed, made, internVars, fetchVars, pureVars, lockVars>>

\* SystemWorld::dependencies (world.rs:123-129): every accessed slot is
\* mapped through system_path, failures are filtered out.
RECURSIVE DependenciesLoop(_, _, _, _, _)
DependenciesLoop(ids, fs, net, pkgok, acc) ==
  IF ids = {} THEN acc
  ELSE LET id == CHOOSE x \in ids : \A y \in ids : x <= y
           sp == system_path(fs, id, net, pkgok)
           nxt == [paths   |-> IF sp.res.ok /\ ~sp.panic
                                 THEN acc.paths \cup {sp.res.path} ELSE acc.paths,
                   fs      |-> sp.fs,
                   fetched |-> acc.fetched \/ sp.fetched,
                   prepared |-> acc.prepared \/ sp.prepared,
                   failed  |-> IF sp.res.ok THEN acc.failed
                               ELSE acc.failed \cup {id},
                   panic   |-> sp.panic]
       IN IF sp.panic THEN nxt
          ELSE DependenciesLoop(ids \ {id}, sp.fs, net, pkgok, nxt)

Dependencies ==
  /\ ~crashed
  /\ LET accessed == {id \in DOMAIN slots : FileSlot_accessed(slots[id])} IN
     \E net \in NetsFor(accessed), pkgok \in PkgFor(accessed) :
     \E d \in {DependenciesLoop(accessed, fsys, net, pkgok,
                                 [paths |-> {}, fs |-> fsys, fetched |-> FALSE,
                                  prepared |-> FALSE, failed |-> {},
                                  panic |-> FALSE])} :
          /\ fsys' = d.fs
          /\ crashed' = d.panic
          /\ last' = [op |-> "dependencies", accessed |-> accessed,
                      paths |-> d.paths, failed |-> d.failed,
                      fetched |-> d.fetched, prepared |-> d.prepared]
  /\ UNCHANGED <<slots, now, nres, made, internVars, fetchVars, pureVars, lockVars>>

\* World::today (world.rs:181-194).  Time is counted in hours, a day has 24.
\* `t` is what chrono::Local::now answers; it is asked only when the
\* OnceLock is empty.
Today ==
  /\ ~crashed
  /\ \E offset \in {None, Some(24)},
        t \in IF IsSome(now) THEN {Unwrap(now)} ELSE 0 .. MaxClock :
       LET n == IF IsSome(now) THEN Unwrap(now) ELSE t
           naive == IF IsSome(offset) THEN n + Unwrap(offset) ELSE n
       IN /\ now' = Some(n)
          /\ last' = [op |-> "today", offset |-> offset, sampled |-> n,
                      fresh |-> ~IsSome(now), day |-> naive \div 24]
  /\ UNCHANGED <<slots, fsys, crashed, nres, made, internVars, fetchVars, pureVars, lockVars>>

\* The environment: a local file is changed, removed or replaced.
Change ==
  /\ ~crashed
  /\ \E st \in FileStates :
       /\ FsGet(fsys, MainPath) # st
       /\ fsys' = FsPut(fsys, MainPath, st)
  /\ UNCHANGED <<slots, now, crashed, last, nres, made, internVars, fetchVars,
               pureVars, lockVars>>

WorldInit ==
  /\ slots = << >>
  /\ now = None
  /\ fsys = [p \in {MainPath, LibPath} |->
               IF p = MainPath THEN File(<<"a">>) ELSE File(<<"BAD">>)]
  /\ crashed = FALSE
  /\ last = [op |-> "init"]
  /\ nres = [id \in 0 .. Len(WorldPairs) - 1 |-> NoCount]
  /\ made = {}

WorldNext ==
  \/ SourceReq
  \/ FileReq
  \/ Reset
  \/ Dependencies
  \/ Today
  \/ Change

(***************************************************************************)
(* The fetch protocol, step by step (remote.rs:99-151)                     *)
(***************************************************************************)
MaxFetches == 3

RemoteUrl == new_impl(RemoteText)
\* A second URL whose mirror path is a directory of the first one's.
ParentUrl == new_impl(UrlStr("https", "h.org", 8080, <<"a">>, "q=1"))
FetchUrls == {RemoteUrl, ParentUrl}
Bodies == {<<"a">>, <<"b", "a">>}

Dest == path_for(furl)

\* The step's share of what the environment does.
StepNets == {Net("ok", <<>>, TRUE, TRUE, mk, rn, rm) :
               mk \in BOOLEAN, rn \in BOOLEAN, rm \in BOOLEAN}

Report(res) ==
  /\ fres' = res
  /\ fpc' = "idle"
  /\ ftemp' = None
  /\ fetches' = fetches + 1

\* What the server or the network answers to the GET: a response, a
\* non-success status with its code, no answer.
Answers ==
  {[kind |-> "ok", code |-> 200], [kind |-> "status", code |-> 404],
   [kind |-> "status", code |-> 500], [kind |-> "transport", code |-> 0]}

\* The two failing arms of the match in fetch (remote.rs:148-149); the
\* message of the first carries the status code.
CallFailure_AllConnection(kind, code) ==
  [ok |-> FALSE, path |-> <<>>, err |-> "Connection", code |-> 0]
CallFailure(kind, code) ==
  IF kind = "status"
    THEN [ok |-> FALSE, path |-> <<>>, err |-> "Status", code |-> code]
    ELSE [ok |-> FALSE, path |-> <<>>, err |-> "Connection", code |-> 0]

\* fetch: the GET is sent and answered (remote.rs:145-150).
Get ==
  /\ fpc = "idle" /\ fetches < MaxFetches
  /\ \E url \in FetchUrls, call \in Answers, body \in Bodies :
       /\ furl' = url
       /\ fprev' = FsGet(fsys, path_for(url))
       /\ fcall' = call
       /\ IF call.kind = "ok"
            THEN /\ fbody' = body
                 /\ fpc' = "response"
                 /\ UNCHANGED <<ftemp, fres, fetches>>
            ELSE /\ fbody' = <<>>
                 /\ Report(CallFailure(call.kind, call.code))
  /\ UNCHANGED <<fsys, fetchFrame>>

\* _create_named_temp_file (remote.rs:99-106).
CreateTemp ==
  /\ fpc = "response"
  /\ \E ok \in BOOLEAN :
       IF ok THEN /\ ftemp' = Some(<<>>)
                  /\ fpc' = "copy"
                  /\ UNCHANGED <<fres, fetches>>
             ELSE Report(PathErr("TempFile"))
  /\ UNCHANGED <<fsys, furl, fbody, fprev, fcall, fetchFrame>>

\* io::copy (remote.rs:110-111): one more byte of the body reaches the
\* temporary file, or the end of the body is seen.
Copy ==
  /\ fpc = "copy"
  /\ LET written == Unwrap(ftemp) IN
     IF Len(written) < Len(fbody)
       THEN /\ ftemp' = Some(Append(written, fbody[Len(written) + 1]))
            /\ fpc' = "copy"
       ELSE /\ fpc' = "move"
            /\ UNCHANGED ftemp
  /\ UNCHANGED <<fsys, furl, fbody, fprev, fcall, fres, fetches, fetchFrame>>

\* io::copy fails (remote.rs:112-114); the temporary file is dropped.
CopyFail ==
  /\ fpc = "copy"
  /\ Report(PathErr("Download"))
  /\ UNCHANGED <<fsys, furl, fbody, fprev, fcall, fetchFrame>>

\* _move_file: create_dir_all (remote.rs:119-124).
CreateDirs ==
  /\ fpc = "move"
  /\ \E net \in StepNets :
       IF MkdirOk(fsys, Front(Dest), net)
         THEN /\ fsys' = MkDirs(fsys, Front(Dest))
              /\ fpc' = "rename"
              /\ UNCHANGED <<ftemp, fres, fetches>>
         ELSE /\ Report(PathErr("CreateDir"))
              /\ UNCHANGED fsys
  /\ UNCHANGED <<furl, fbody, fprev, fcall, fetchFrame>>

\* _move_file: rename (remote.rs:125-133) and download_response's Ok(file).
RenameStep ==
  /\ fpc = "rename"
  /\ \E net \in StepNets :
       IF RenameOk(fsys, Dest, net)
         THEN /\ fsys' = Rename(fsys, Unwrap(ftemp), Dest)
              /\ Report(PathOk(Dest))
         ELSE /\ fsys' = FailedRename(fsys, Unwrap(ftemp), Dest)
              /\ fpc' = "cleanup"
              /\ UNCHANGED <<ftemp, fres, fetches>>
  /\ UNCHANGED <<furl, fbody, fprev, fcall, fetchFrame>>

\* _move_file: remove_file after the failed rename (remote.rs:127-131).
Cleanup ==
  /\ fpc = "cleanup"
  /\ \E net \in StepNets : fsys' = RemoveFile(fsys, Dest, net)
  /\ Report(PathErr("Move"))
  /\ UNCHANGED <<furl, fbody, fprev, fcall, fetchFrame>>

FetchInit ==
  /\ fpc = "idle"
  /\ furl = RemoteUrl
  /\ fbody = <<>>
  /\ ftemp = None
  /\ fprev = Absent
  /\ fcall = [kind |-> "transport", code |-> 0]
  /\ fres = PathErr("none")
  /\ fetches = 0

FetchNext ==
  Get \/ CreateTemp \/ Copy \/ CopyFail \/ CreateDirs \/ RenameStep \/ Cleanup

(***************************************************************************)
(* SystemWorld::slot under concurrent requests (world.rs:169-175, 199-205) *)
(* `let mut map = self.slots.lock(); f(map.entry(id).or_insert_with(..))`: *)
(* the guard lives until slot returns.  The steps of one request:          *)
(*   idle -> entry -> insert -> path -> load -> unlock -> idle             *)
(***************************************************************************)
MaxLoads == 2

Idle(n) ==
  [pc |-> "idle", id |-> 0, kind |-> "source", res |-> PathErr(""),
   panic |-> FALSE, loads |-> n]

\* `self.slots.lock()` (world.rs:203): the caller waits until the mutex is
\* free.
MutexFree_Always(holder) == TRUE
MutexFree(holder) == holder = 0

\* A thread calls source(id) or file(id) and takes the mutex.
LockSlots(t) ==
  /\ ~crashed /\ th[t].pc = "idle" /\ th[t].loads < MaxLoads
  /\ MutexFree(lock)
  /\ lock' = t
  /\ \E id \in Ids, kind \in Kinds :
       th' = [th EXCEPT ![t] = [@ EXCEPT !.pc = "entry", !.id = id,
                                        !.kind = kind]]
  /\ UNCHANGED <<news, internVars, worldVars, fetchVars, pureVars>>

\* map.entry(id): the lookup of the slot.
Entry(t) ==
  /\ ~crashed /\ th[t].pc = "entry"
  /\ th' = [th EXCEPT ![t].pc =
              IF th[t].id \in DOMAIN slots THEN "path" ELSE "insert"]
  /\ UNCHANGED <<lock, news, internVars, worldVars, fetchVars, pureVars>>

\* or_insert_with(|| FileSlot::new(id)): the slot is created and inserted.
InsertSlot(t) ==
  /\ ~crashed /\ th[t].pc = "insert"
  /\ slots' = SlotPut(th[t].id, FileSlot_new(th[t].id))
  /\ news' = [news EXCEPT ![th[t].id] = @ + 1]
  /\ th' = [th EXCEPT ![t].pc = "path"]
  /\ UNCHANGED <<lock, now, fsys, crashed, last, nres, made, internVars,
                 fetchVars, pureVars>>

\* The start of get_or_init: a cell accessed in this compilation answers at
\* once; otherwise the path closure runs, system_path with its fetch.
ResolvePath(t) ==
  /\ ~crashed /\ th[t].pc = "path"
  /\ LET id == th[t].id
         cell == SlotOf(id)[th[t].kind]
     IN IF CacheHit(cell)
          THEN /\ th' = [th EXCEPT ![t].pc = "load"]
               /\ UNCHANGED fsys
          ELSE \E net \in NetsFor({id}), pkgok \in PkgFor({id}) :
               \E sp \in {system_path(fsys, id, net, pkgok)} :
                 /\ th' = [th EXCEPT ![t] = [@ EXCEPT !.pc = "load",
                                                    !.res = sp.res,
                                                    !.panic = sp.panic]]
                 /\ fsys' = sp.fs
  /\ UNCHANGED <<lock, news, slots, now, crashed, last, nres, made, internVars,
                 fetchVars, pureVars>>

\* The rest of get_or_init: read, hash128, the closure, the store.
LoadSlot(t) ==
  /\ ~crashed /\ th[t].pc = "load"
  /\ LET id == th[t].id
         kind == th[t].kind
         slot == SlotOf(id)
         sp == SysPath(th[t].res, fsys, th[t].panic, FALSE, FALSE)
     IN \E o \in {get_or_init(slot[kind], kind, id, fsys, sp)} :
          /\ slots' = SlotPut(id, [slot EXCEPT ![kind] = o.cell])
          /\ crashed' = (o.hit = "panic")
  /\ th' = [th EXCEPT ![t].pc = "unlock"]
  /\ UNCHANGED <<lock, news, now, fsys, last, nres, made, internVars,
                 fetchVars, pureVars>>

\* slot returns: the guard is dropped.
UnlockSlots(t) ==
  /\ ~crashed /\ th[t].pc = "unlock"
  /\ lock' = IF lock = t THEN 0 ELSE lock
  /\ th' = [th EXCEPT ![t] = Idle(th[t].loads + 1)]
  /\ UNCHANGED <<news, internVars, worldVars, fetchVars, pureVars>>

LockInit ==
  /\ lock = 0
  /\ th = [t \in Threads |-> Idle(0)]
  /\ news = [id \in 0 .. Len(WorldPairs) - 1 |-> 0]

LockNext ==
  \E t \in Threads :
    \/ LockSlots(t) \/ Entry(t) \/ InsertSlot(t) \/ ResolvePath(t)
    \/ LoadSlot(t) \/ UnlockSlots(t)

(***************************************************************************)
(* PackageSpec and PackageVersion (file.rs:380-500).  A string is the      *)
(* sequence of its characters.                                             *)
(***************************************************************************)
Digits == <<"0", "1", "2", "3", "4", "5", "6", "7", "8", "9">>
IsDigit(c) == \E i \in DOMAIN Digits : Digits[i] = c
DigitVal(c) == (CHOOSE i \in DOMAIN Digits : Digits[i] = c) - 1

\* Scanner::eat_until: the longest prefix without the character.
RECURSIVE eat_until(_, _)
eat_until(s, c) ==
  IF s = <<>> \/ Head(s) = c THEN <<>>
  ELSE <<Head(s)>> \o eat_until(Tail(s), c)

\* Scanner::eat_if and the text after n characters.
eat_if(s, c) == IF s # <<>> /\ Head(s) = c THEN Tail(s) ELSE s
After(s, n) == SubSeq(s, n + 1, Len(s))

\* str::split: the parts between the separators; one empty part for "".
RECURSIVE split(_, _)
split(s, c) ==
  LET part == eat_until(s, c) IN
  IF Len(part) = Len(s) THEN <<part>>
  ELSE <<part>> \o split(After(s, Len(part) + 1), c)

\* is_ident: a letter or "_", then letters, digits, "_" and "-".
IdStart == {"n", "s", "p", "_"}
is_ident(s) ==
  /\ s # <<>> /\ Head(s) \in IdStart
  /\ \A i \in DOMAIN s : s[i] \in IdStart \/ IsDigit(s[i]) \/ s[i] = "-"

\* u32::MAX, as its digits.
U32MaxDigits == <<"4", "2", "9", "4", "9", "6", "7", "2", "9", "5">>

RECURSIVE StripZeros(_)
StripZeros(ds) ==
  IF Len(ds) > 1 /\ Head(ds) = "0" THEN StripZeros(Tail(ds)) ELSE ds

\* The number of ds is above the number of ms; neither has leading zeros.
RECURSIVE DigitsAbove(_, _)
DigitsAbove(ds, ms) ==
  IF Len(ds) # Len(ms) THEN Len(ds) > Len(ms)
  ELSE IF ds = <<>> THEN FALSE
  ELSE IF Head(ds) # Head(ms) THEN DigitVal(Head(ds)) > DigitVal(Head(ms))
  ELSE DigitsAbove(Tail(ds), Tail(ms))

RECURSIVE NumVal(_, _)
NumVal(ds, acc) ==
  IF ds = <<>> THEN acc ELSE NumVal(Tail(ds), 10 * acc + DigitVal(Head(ds)))

\* str::parse::<u32>: an optional "+", then one digit or more, the number
\* at most u32::MAX.
parse_u32(part) ==
  LET ds == IF part # <<>> /\ Head(part) = "+" THEN Tail(part) ELSE part IN
  IF ds # <<>> /\ (\A i \in DOMAIN ds : IsDigit(ds[i]))
       /\ ~DigitsAbove(StripZeros(ds), U32MaxDigits)
    THEN Some(NumVal(ds, 0))
    ELSE None

\* The closure `next` of PackageVersion::from_str on the i-th part.
NextPart(parts, i) ==
  IF i > Len(parts) \/ parts[i] = <<>> THEN Err("missing version part")
  ELSE IF ~IsSome(parse_u32(parts[i])) THEN Err("not a valid version part")
  ELSE Ok(Unwrap(parse_u32(parts[i])))

\* PackageVersion::from_str (file.rs:465-487).
PackageVersion_from_str(s) ==
  LET parts == split(s, ".")
      major == NextPart(parts, 1)
      minor == NextPart(parts, 2)
      patch == NextPart(parts, 3)
  IN IF ~major.ok THEN major
     ELSE IF ~minor.ok THEN minor
     ELSE IF ~patch.ok THEN patch
     ELSE IF Len(parts) > 3 THEN Err("unexpected fourth component")
     ELSE Ok(<<major.val, minor.val, patch.val>>)

\* PackageSpec::from_str (file.rs:391-426).
PackageSpec_from_str(text) ==
  IF text = <<>> \/ Head(text) # "@" THEN Err("must start with @")
  ELSE
    LET s1        == Tail(text)
        namespace == eat_until(s1, "/")
        s2        == eat_if(After(s1, Len(namespace)), "/")
        name      == eat_until(s2, ":")
        version   == eat_if(After(s2, Len(name)), ":")
    IN IF namespace = <<>> THEN Err("missing namespace")
       ELSE IF ~is_ident(namespace) THEN Err("not a valid package namespace")
       ELSE IF name = <<>> THEN Err("missing name")
       ELSE IF ~is_ident(name) THEN Err("not a valid package name")
       ELSE IF version = <<>> THEN Err("missing version")
       ELSE LET v == PackageVersion_from_str(version) IN
            IF ~v.ok THEN v
            ELSE Ok([namespace |-> namespace, name |-> name, version |-> v.val])

\* Display for u32: the decimal digits, no sign, no leading zero.
RECURSIVE Decimal(_)
Decimal(n) ==
  IF n < 10 THEN <<Digits[n + 1]>>
  ELSE Decimal(n \div 10) \o <<Digits[(n % 10) + 1]>>

\* Display for PackageVersion (file.rs:495-499).
PackageVersion_fmt_NoPatch(v) == Decimal(v[1]) \o <<".">> \o Decimal(v[2])
PackageVersion_fmt(v) ==
  Decimal(v[1]) \o <<".">> \o Decimal(v[2]) \o <<".">> \o Decimal(v[3])

\* Display for PackageSpec (file.rs:434-438).
PackageSpec_fmt(x) ==
  <<"@">> \o x.namespace \o <<"/">> \o x.name \o <<":">>
    \o PackageVersion_fmt(x.version)

(***************************************************************************)
(* Calls of the pure functions: one call per behaviour, its arguments      *)
(* drawn by the initial state.                                             *)
(***************************************************************************)
MaxSegs == 3

SegNames == {"..", ".", "a", "b.typ"}
SegSeqs == UNION {[1 .. n -> SegNames] : n \in 0 .. MaxSegs}

\* Path text and file URL text handed to VirtualPath::new.
PathTexts == {PathStr(abs, segs) : abs \in BOOLEAN, segs \in SegSeqs}
FileUrlTexts == {UrlStr("file", "", 0, segs, "") : segs \in SegSeqs}

\* Real roots: the file system root, the project root, a package root.
Roots == {<<>>, ProjectRoot, PackageRoot}

\* URL text that is neither http(s) nor a plain file URL.
OtherUrlTexts ==
  {UrlStr("ftp", "h.org", 0, <<"a", "b.typ">>, ""),
   UrlStr("file", "h.org", 0, <<"a", "b.typ">>, ""),
   UrlStr("file", "localhost", 0, <<"a", "b.typ">>, "")}

ResolveInputs ==
  {[op |-> "resolve", text |-> t, root |-> r] :
     t \in PathTexts \cup FileUrlTexts \cup OtherUrlTexts, r \in Roots}

\* URL text handed to the mirror: with and without a host, a port, a query
\* and a fragment; a path may be the root, end in a slash or start with two.
MirrorSegs == {<<>>, <<"a", "b.typ">>, <<"a", "">>, <<"", "a", "b.typ">>}
\* An http(s) URL always has a host; a file URL may have one.
MirrorOrigins ==
  {<<"https", "h.org">>, <<"https", "g.net">>, <<"file", "">>, <<"file", "h.org">>}
MirrorUrlTexts ==
  {[UrlStr(o[1], o[2], p, segs, q) EXCEPT !.frag = f] :
     o \in MirrorOrigins, p \in {0, 8080}, segs \in MirrorSegs,
     q \in {"", "q=1"}, f \in {"", "top"}}

MirrorInputs == {[op |-> "path_for", text |-> t] : t \in MirrorUrlTexts}

\* Real paths handed to within_root, and the roots they are measured against.
WithinSegNames == {"proj", "x", "..", "."}
WithinPaths ==
  {PathStr(abs, segs) :
     abs \in BOOLEAN,
     segs \in UNION {[1 .. n -> WithinSegNames] : n \in 0 .. MaxSegs + 1}}
WithinRoots == {ProjectRoot, ProjectRoot \o <<"x">>}
WithinInputs ==
  {[op |-> "within_root", text |-> t, root |-> r] :
     t \in WithinPaths, r \in WithinRoots}

\* The virtual paths join is called on, and its arguments: path text, the
\* argument of the test at file.rs:307-313, and URL text.
JoinSelves ==
  {UrlStr(sch, "example.com", p, segs, q) :
     sch \in {"http", "https"}, p \in {0, 8080}, q \in {"", "q=1"},
     segs \in {<<>>, <<"a", "foo.typ">>, <<"a", "">>, <<"d", "a", "foo.typ">>}}
    \cup {MainText}
JoinArgs ==
  PathTexts \cup {PathStr(FALSE, <<".", "b", "toto.typ">>), RemoteText}
    \cup OtherUrlTexts
JoinInputs ==
  {[op |-> "join", text |-> t, arg |-> a] : t \in JoinSelves, a \in JoinArgs}

\* Text handed to PackageSpec::from_str: well-formed up to the version, with
\* a version of one to MaxParts parts; and text with "@", "/", ":" or a
\* name missing or a name that is not an identifier.
MaxParts == 4
VersionParts ==
  {<<>>, <<"1">>, <<"0", "1">>, <<"+", "1">>, <<"n">>, <<"1", "2">>,
   <<"4", "2", "9", "4", "9", "6", "7", "2", "9", "6">>}

RECURSIVE JoinParts(_)
JoinParts(parts) ==
  IF Len(parts) = 1 THEN parts[1]
  ELSE parts[1] \o <<".">> \o JoinParts(Tail(parts))

VersionTexts ==
  {JoinParts(ps) : ps \in UNION {[1 .. n -> VersionParts] : n \in 1 .. MaxParts}}
SpecTexts ==
  {<<"@">> \o ns \o <<"/">> \o name \o <<":">> \o v :
     ns \in {<<"n", "s">>}, name \in {<<"p">>, <<"p", "-", "1">>},
     v \in VersionTexts}
    \cup
  {at \o ns \o sl \o name \o co \o <<"1", ".", "2", ".", "0">> :
     at \in {<<"@">>, <<>>}, ns \in {<<"n", "s">>, <<>>, <<"1", "n">>},
     sl \in {<<"/">>, <<>>}, name \in {<<"p">>, <<>>, <<"-", "p">>},
     co \in {<<":">>, <<>>}}
ParseInputs == {[op |-> "parse", chars |-> t] : t \in SpecTexts}

\* The handles system_path is called on: those of the session, a remote
\* file named from inside a package, a path that leaves its root, in the
\* project and in a package, a URL that is not http(s), and a remote file
\* whose URL path starts with two slashes.
PurePairs ==
  WorldPairs \o
  << MkPair(Preview, new_impl(RemoteText)),
     MkPair(NoPackage, new_impl(UpText)),
     MkPair(Preview, new_impl(UpText)),
     MkPair(NoPackage, new_impl(UrlStr("ftp", "h.org", 0, <<"a", "b.typ">>, ""))),
     MkPair(NoPackage,
            new_impl(UrlStr("https", "h.org", 0, <<"", "a", "b.typ">>, ""))) >>
SysPathInputs ==
  {[op |-> "system_path", id |-> id, net |-> net, pkgok |-> pkgok] :
     id \in 0 .. Len(PurePairs) - 1, net \in WorldNets, pkgok \in BOOLEAN}

PureInputs ==
  ResolveInputs \cup MirrorInputs \cup WithinInputs \cup JoinInputs
    \cup ParseInputs \cup SysPathInputs

\* VirtualPath::new(text), then the resolution of system_path_old against
\* the root.
ResolveCall ==
  /\ pin.op = "resolve" /\ pout = None
  /\ pout' = Some(resolve_or_deny(new_impl(pin.text), pin.root))
  /\ UNCHANGED <<pin, internVars, worldVars, fetchVars, lockVars>>

\* Url::parse(text), then can_mirror and, where it holds, path_for.
MirrorCall ==
  /\ pin.op = "path_for" /\ pout = None
  /\ \E url \in {Unwrap(UrlParse(pin.text))} :
       pout' = Some([can |-> can_mirror(url),
                     path |-> IF can_mirror(url) THEN path_for(url) ELSE <<>>])
  /\ UNCHANGED <<pin, internVars, worldVars, fetchVars, lockVars>>

WithinRootCall ==
  /\ pin.op = "within_root" /\ pout = None
  /\ pout' = Some(within_root(pin.text, pin.root))
  /\ UNCHANGED <<pin, internVars, worldVars, fetchVars, lockVars>>

\* VirtualPath::new(text).join(arg).
JoinCall ==
  /\ pin.op = "join" /\ pout = None
  /\ pout' = Some(VirtualPath_join(new_impl(pin.text), pin.arg))
  /\ UNCHANGED <<pin, internVars, worldVars, fetchVars, lockVars>>

\* text.parse::<PackageSpec>(), the value formatted, and the formatted text
\* parsed again.
ParseCall ==
  /\ pin.op = "parse" /\ pout = None
  /\ \E r \in {PackageSpec_from_str(pin.chars)} :
       pout' = Some([parsed |-> r,
                     shown  |-> IF r.ok THEN PackageSpec_fmt(r.val) ELSE <<>>,
                     again  |-> IF r.ok
                                  THEN PackageSpec_from_str(PackageSpec_fmt(r.val))
                                  ELSE r])
  /\ UNCHANGED <<pin, internVars, worldVars, fetchVars, lockVars>>

\* system_path(root, id, fetcher) on the handle `id`.
SysPathCall ==
  /\ pin.op = "system_path" /\ pout = None
  /\ \E sp \in {system_path(fsys, pin.id, pin.net, pin.pkgok)} :
       /\ pout' = Some(sp)
       /\ fsys' = sp.fs
  /\ UNCHANGED <<pin, internVars, slots, now, crashed, last, nres, made,
               fetchVars, lockVars>>

PureInit == pin \in PureInputs /\ pout = None
\* Before any call: the state the other specifications stay in.
PureIdle == pin = [op |-> "none"] /\ pout = None

PureNext ==
  \/ ResolveCall \/ MirrorCall \/ WithinRootCall \/ JoinCall \/ ParseCall
  \/ SysPathCall

(***************************************************************************)
(* The specifications                                                      *)
(***************************************************************************)
\* The interner after the pairs of `pairs` have been interned in turn.
InternedAs(pairs) ==
  /\ from_id = pairs
  /\ to_id = [p \in {pairs[i] : i \in DOMAIN pairs} |->
                (CHOOSE i \in DOMAIN pairs : pairs[i] = p) - 1]
  /\ pc = [t \in Threads |-> "idle"]
  /\ arg = [t \in Threads |-> pairs[1]]
  /\ calls = [t \in Threads |-> 0]
  /\ returned = {}
  /\ aborted = FALSE

\* A session, started after the pairs of WorldPairs have been interned.
Interned == InternedAs(WorldPairs)

Init == Interned /\ WorldInit /\ FetchInit /\ PureIdle /\ LockInit
Next == WorldNext
Spec == Init /\ [][Next]_vars

\* The interner under concurrent callers.
InitIntern == InternInit /\ WorldInit /\ FetchInit /\ PureIdle /\ LockInit
NextIntern == InternNext
SpecIntern == InitIntern /\ [][NextIntern]_vars

\* The fetcher working on an empty mirror.
InitFetch == Interned /\ WorldInit /\ FetchInit /\ PureIdle /\ LockInit
NextFetch == FetchNext
SpecFetch == InitFetch /\ [][NextFetch]_vars

\* The pure functions, called on every argument of the bounded sets.
InitPure ==
  InternedAs(PurePairs) /\ WorldInit /\ FetchInit /\ PureInit /\ LockInit
NextPure == PureNext
SpecPure == InitPure /\ [][NextPure]_vars

\* Concurrent requests on one session.
InitLock == Interned /\ WorldInit /\ FetchInit /\ PureIdle /\ LockInit
NextLock == LockNext
SpecLock == InitLock /\ [][NextLock]_vars

(***************************************************************************)
(* Properties                                                              *)
(***************************************************************************)
IsLoad == last.op \in Kinds

\* What a session without any cache returns for a read result.
Uncached(kind, id, rd) ==
  IF rd.ok THEN Transform(kind, id, rd.val, None) ELSE Err(rd.err)

\* C1: under any interleaving of concurrent FileId::new calls, two calls
\* with equal pairs return the same handle, and the interning table never
\* holds more than one entry for one pair.
C1_EqualPairsSameHandle ==
  /\ \A r1 \in returned, r2 \in returned : r1.pair = r2.pair => r1.id = r2.id
  /\ \A i \in DOMAIN from_id, j \in DOMAIN from_id :
       from_id[i] = from_id[j] => i = j

\* C2: every handle a call has returned keeps naming its pair: package and
\* vpath succeed on it and give back the pair, in every later state; no
\* handle is shared by two pairs.
C2_HandleKeepsPair ==
  /\ \A r \in returned :
       /\ r.id \in 0 .. Len(from_id) - 1
       /\ package(r.id) = r.pair.package
       /\ vpath(r.id) = r.pair.path
  /\ \A r1 \in returned, r2 \in returned : r1.id = r2.id => r1.pair = r2.pair

\* C2 witness: three handles are out, one of them made by join, and two
\* threads have raced on one pair.
C2_Witness ==
  /\ Cardinality(returned) >= 3
  /\ \E r \in returned : r.pair.path.segs = <<"..", "up.typ">>
  /\ \E i \in DOMAIN from_id, j \in DOMAIN from_id :
       i # j /\ from_id[i] = from_id[j]

\* C3: a request for a cell that was accessed in this compilation and holds
\* a result returns that result, and neither resolves the system path, nor
\* reads a file, nor fetches, nor asks the package resolver, nor changes the
\* cell.
C3_CachedWithinCompilation ==
  (IsLoad /\ last.before.accessed /\ IsSome(last.before.data)) =>
    /\ last.result = Unwrap(last.before.data)
    /\ ~last.resolved /\ ~last.fetched /\ ~last.prepared
    /\ last.read = None
    /\ slots[last.id][last.op] = last.before
    /\ ~crashed

\* C3 witness: a second source() request for the remote file in one
\* compilation was answered from the cell.
C3_Witness ==
  /\ IsLoad /\ last.op = "source" /\ is_remote(vpath(last.id))
  /\ last.before.accessed /\ IsSome(last.before.data)
  /\ last.hit = "cache" /\ last.result.ok

\* C4 as claimed: between two resets, system-path resolution is attempted
\* at most once per handle, whatever the mix of source() and file().
C4_OncePerHandle ==
  \A id \in DOMAIN nres :
    (\A k \in Kinds : SlotOf(id)[k].accessed =>
        IsSome(SlotOf(id)[k].data) /\ Unwrap(SlotOf(id)[k].data).ok)
    => nres[id].source + nres[id].file <= 1

\* C4 as amended: between two resets, system-path resolution is attempted
\* at most once per handle for source() and at most once for file().
C4_OncePerHandleAndKind ==
  \A id \in DOMAIN nres, k \in Kinds : nres[id][k] <= 1

\* C4 witness: a handle was resolved once for each kind, and a further
\* request was answered without a resolution.
C4_Witness ==
  /\ IsLoad /\ last.hit = "cache"
  /\ nres[last.id].source = 1 /\ nres[last.id].file = 1

\* C5: the first load of a new compilation whose read has the stored
\* fingerprint returns the cached value or failure unchanged, without
\* running the decode/parse transform.
C5_FingerprintReuse ==
  (/\ IsLoad /\ ~last.before.accessed /\ IsSome(last.before.data)
   /\ IsSome(last.read)
   /\ hash128(Unwrap(last.read)) = last.before.fingerprint) =>
    /\ last.result = Unwrap(last.before.data)
    /\ ~last.transformed /\ ~last.created
    /\ slots[last.id][last.op].data = last.before.data

\* C5 witness: after a reset, source() read the same bytes again and gave
\* back the source parsed in the earlier compilation.
C5_Witness ==
  /\ IsLoad /\ last.op = "source" /\ last.hit = "fingerprint"
  /\ ~last.before.accessed /\ last.result.ok

\* C6: the first request for a cell in a compilation returns what a session
\* without a cache returns for the bytes or the failure that request read.
C6_FreshAsUncached ==
  (IsLoad /\ ~last.before.accessed /\ last.hit # "panic") =>
    /\ IsSome(last.read)
    /\ last.result = Uncached(last.op, last.id, Unwrap(last.read))

\* C6 witness: a cell holding a parsed source is asked again in a later
\* compilation, after the file was removed, and reports the failure.
C6_Witness ==
  /\ IsLoad /\ last.op = "source" /\ ~last.before.accessed
  /\ IsSome(last.before.data) /\ Unwrap(last.before.data).ok
  /\ ~last.result.ok /\ last.result.err = "NotFound"

\* C7: a reset clears the accessed flag of every cell and the stored time,
\* and keeps the set of slots, every cached result and every fingerprint.
C7_ResetFrame ==
  [][last'.op = "reset" =>
       /\ now' = None
       /\ DOMAIN slots' = DOMAIN slots
       /\ \A id \in DOMAIN slots :
            /\ slots'[id].id = slots[id].id
            /\ \A k \in Kinds :
                 /\ ~slots'[id][k].accessed
                 /\ slots'[id][k].data = slots[id][k].data
                 /\ slots'[id][k].fingerprint = slots[id][k].fingerprint]_vars

\* C7 witness: a reset has acted on a session that held a time, accessed
\* slots, a cached source and a fingerprint.
C7_Witness ==
  /\ last.op = "reset" /\ last.hadnow /\ last.accessed # {}
  /\ now = None
  /\ \E id \in DOMAIN slots :
       /\ IsSome(slots[id].source.data)
       /\ slots[id].source.fingerprint # 0
       /\ ~FileSlot_accessed(slots[id])

\* C8: when the fetch for a remote handle fails, source() and file() return
\* a failure value and the process does not crash.
C8_FetchFailureReturned ==
  (IsLoad /\ last.fetched /\ ~last.path.ok) =>
    /\ ~crashed
    /\ last.hit # "panic"
    /\ ~last.result.ok

\* The real path a slot's id stands for in the list of dependencies.
DependencyPath(id) ==
  IF is_remote(vpath(id)) THEN path_for(vpath(id))
  ELSE Unwrap(resolve(vpath(id),
                      IF IsSome(package(id)) THEN PackageRoot ELSE ProjectRoot))

\* C9: dependencies() yields exactly the system paths of the accessed slots
\* whose resolution succeeds; a failing resolution is left out and neither
\* reaches the caller nor ends the enumeration.
C9_DependenciesSkipFailures ==
  last.op = "dependencies" =>
    /\ ~crashed
    /\ last.paths = {DependencyPath(id) : id \in last.accessed \ last.failed}

FetchFailed == fpc = "idle" /\ fetches > 0 /\ ~fres.ok

\* C10 as claimed: whenever a fetch reports a failure, no file exists at the
\* mirror destination of its URL.
C10_NoFileAfterFailure ==
  FetchFailed => FsGet(fsys, Dest).kind # "file"

\* C10 as amended: whenever a fetch reports a failure, the mirror
\* destination is absent or holds exactly what it held when the fetch began.
C10_NoNewFileAfterFailure ==
  FetchFailed => (FsGet(fsys, Dest) = Absent \/ FsGet(fsys, Dest) = fprev)

\* C10 witness: a fetch failed while the body was streamed, with an older
\* mirror entry in place, which is still there.
C10_Witness ==
  /\ FetchFailed /\ fres.err = "Download"
  /\ fprev.kind = "file" /\ FsGet(fsys, Dest) = fprev

\* The mirror paths of the URLs that are fetched.
MirrorPaths == {path_for(url) : url \in FetchUrls}

\* C11: in every state of the fetch protocol, a mirror path is absent, a
\* directory, or a file holding the complete body of a response; never a
\* prefix of a body still being received.
C11_NeverPartial ==
  \A p \in MirrorPaths :
    FsGet(fsys, p).kind = "file" => FsGet(fsys, p).bytes \in Bodies

\* C11 witness: a body of two bytes is half way into the temporary file
\* while the destination still holds the complete file of an earlier fetch.
C11_Witness ==
  /\ fpc = "copy" /\ Len(fbody) = 2 /\ Len(Unwrap(ftemp)) = 1
  /\ FsGet(fsys, Dest).kind = "file" /\ FsGet(fsys, Dest).bytes \in Bodies

FetchSucceeded == fpc = "idle" /\ fetches > 0 /\ fres.ok

\* C12: a fetch that reports success returns path_for(url), and the file
\* there holds exactly the bytes of that response, whatever was there before.
C12_SuccessInstallsBody ==
  FetchSucceeded =>
    /\ fres.path = path_for(furl)
    /\ FsGet(fsys, path_for(furl)) = File(fbody)

\* C12 witness: a successful fetch has replaced an older mirror entry with
\* other bytes.
C12_Witness ==
  /\ FetchSucceeded
  /\ fprev.kind = "file" /\ fprev.bytes # fbody
  /\ FsGet(fsys, Dest) = File(fbody)

IsPrefix(p, q) == Len(p) <= Len(q) /\ SubSeq(q, 1, Len(p)) = p

\* Walking the components below `root`, a ".." is met while nothing is left
\* above the root to drop, and the root has a parent to fall back to.
RECURSIVE LeavesRoot(_, _, _)
LeavesRoot(comps, depth, root) ==
  IF comps = <<>> THEN FALSE
  ELSE IF Head(comps) = ".."
    THEN IF depth = 0 THEN root # <<>> \/ LeavesRoot(Tail(comps), 0, root)
         ELSE LeavesRoot(Tail(comps), depth - 1, root)
    ELSE LeavesRoot(Tail(comps), depth + 1, root)

\* C13: resolving a non-remote virtual path against a root gives a real
\* path that has the root as a prefix, or the access-denied failure; it
\* fails exactly when a ".." component would shorten the result below the
\* root.
C13_ResolveStaysInRoot ==
  (pin.op = "resolve" /\ IsSome(pout) /\ ~is_remote(new_impl(pin.text))) =>
    LET v == new_impl(pin.text)
        r == Unwrap(pout)
    IN /\ r.ok => IsPrefix(pin.root, r.path)
       /\ ~r.ok => r.err = "AccessDenied"
       /\ ~r.ok <=> LeavesRoot(Components(as_rooted_path(v)), 0, pin.root)

\* The same for the virtual paths that are file paths or file URLs without
\* a host.
C13_FilePathsStayInRoot ==
  (pin.op = "resolve" /\ IsSome(pout)
     /\ pin.text \in PathTexts \cup FileUrlTexts) =>
    LET v == new_impl(pin.text)
        r == Unwrap(pout)
    IN /\ r.ok => IsPrefix(pin.root, r.path)
       /\ ~r.ok => r.err = "AccessDenied"
       /\ ~r.ok <=> LeavesRoot(Components(as_rooted_path(v)), 0, pin.root)

\* C13 witness: "../a/b.typ" has been denied under the project root.
C13_Witness ==
  /\ pin.op = "resolve" /\ IsSome(pout)
  /\ pin.text = PathStr(FALSE, <<"..", "a", "b.typ">>)
  /\ pin.root = ProjectRoot
  /\ ~Unwrap(pout).ok

DistinctPairs == {from_id[i] : i \in DOMAIN from_id}

\* C14: the distinct pairs interned take the handle numbers 0, 1, 2, ... in
\* insertion order, one number each, below the ceiling of 65536; interning
\* one more pair at the ceiling aborts the process and adds no entry; no
\* number is wrapped around or given twice.
C14_NumbersInOrderUpToCeiling ==
  /\ \A r \in returned :
       /\ r.id < Cardinality(DistinctPairs)
       /\ r.id < IdLimit
       /\ from_id[r.id + 1] = r.pair
  /\ Len(from_id) <= IdLimit
  /\ aborted => Len(from_id) = IdLimit
  /\ \A r1 \in returned, r2 \in returned : r1.id = r2.id => r1.pair = r2.pair

\* C15: every today() call takes its day from the stored timestamp; the
\* timestamp is sampled by the first today() call after a reset or after
\* the creation of the session and kept by every later call until the next
\* reset.
C15_OneTimestampPerCompilation ==
  [][(last' # last /\ last'.op = "today") =>
       /\ now' = Some(last'.sampled)
       /\ last'.day =
            (last'.sampled
               + (IF IsSome(last'.offset) THEN Unwrap(last'.offset) ELSE 0))
              \div 24
       /\ IsSome(now) => (now' = now /\ ~last'.fresh)
       /\ last.op \in {"reset", "init"} => (now = None /\ last'.fresh)]_vars

\* C15 witness: after a reset a today() call has sampled a timestamp and a
\* second call, with an offset, has used the same one.
C15_Witness ==
  /\ last.op = "today" /\ ~last.fresh /\ IsSome(last.offset)
  /\ now = Some(last.sampled)
  /\ \E id \in DOMAIN slots :
       IsSome(slots[id].source.data) /\ ~FileSlot_accessed(slots[id])

\* C16: the step that ends a fetch reports exactly the outcome of the stage
\* it ended in: a non-success status with its code or a connection failure
\* from the GET, a temporary-file, streaming, directory-creation or rename
\* failure from the stage that failed, success with the mirror path only
\* from the rename; the failure kinds differ from each other and from
\* success.
C16_OutcomePerFailure ==
  [][fetches' = fetches + 1 =>
       /\ fpc' = "idle"
       /\ fpc = "idle" =>
            /\ ~fres'.ok
            /\ fcall'.kind = "status" =>
                 (fres'.err = "Status" /\ fres'.code = fcall'.code)
            /\ fcall'.kind = "transport" => fres'.err = "Connection"
       /\ fpc = "response" => (~fres'.ok /\ fres'.err = "TempFile")
       /\ fpc = "copy" => (~fres'.ok /\ fres'.err = "Download")
       /\ fpc = "move" => (~fres'.ok /\ fres'.err = "CreateDir")
       /\ fpc = "cleanup" => (~fres'.ok /\ fres'.err = "Move")
       /\ fpc = "rename" => (fres'.ok /\ fres'.path = path_for(furl))
       /\ fres'.ok => (fpc = "rename" /\ fcall.kind = "ok")]_vars

\* C16 witness: a fetch answered with status 500 has reported a status
\* failure carrying 500, after an earlier fetch had installed a file.
C16_Witness ==
  /\ fpc = "idle" /\ fetches > 1 /\ ~fres.ok
  /\ fres.err = "Status" /\ fres.code = 500 /\ fcall.code = 500
  /\ FsGet(fsys, Dest).kind = "file"


\* C17: for a URL with a host, path_for is the mirror root, then the host,
\* then the components of the URL path; the port, the query and the fragment
\* do not change it; can_mirror holds exactly for a URL with a host.
C17_MirrorPathFromHostAndPath ==
  (pin.op = "path_for" /\ IsSome(pout)) =>
    LET url == Unwrap(UrlParse(pin.text))
        out == Unwrap(pout)
    IN /\ out.can = (pin.text.host # "")
       /\ out.can =>
            /\ out.path = MirrorRoot \o <<url.host>>
                            \o Components(PathStr(FALSE, url.segs))
            /\ \A t \in MirrorUrlTexts :
                 (t.scheme = pin.text.scheme /\ t.host = pin.text.host
                    /\ t.segs = pin.text.segs)
                   => path_for(Unwrap(UrlParse(t))) = out.path

\* The same for the URLs whose path does not start with two slashes.
C17_SingleSlashPaths ==
  (pin.op = "path_for" /\ IsSome(pout)
     /\ ~(pin.text.segs # <<>> /\ Head(pin.text.segs) = "")) =>
    C17_MirrorPathFromHostAndPath


\* The walk of a real path, component by component: 0 before it is in the
\* root, 1 in the root, 2 having left the root through "..", 3 in the root
\* again.
InRoot(pos, root) == IsPrefix(root, pos)

RECURSIVE RootWalk(_, _, _, _)
RootWalk(comps, pos, root, phase) ==
  IF comps = <<>> THEN phase
  ELSE LET c    == Head(comps)
           next == IF c = ".." THEN (IF pos = <<>> THEN pos ELSE Front(pos))
                   ELSE Append(pos, c)
           in   == InRoot(next, root)
           ph   == IF phase = 0 /\ in THEN 1
                   ELSE IF phase = 1 /\ ~in /\ c = ".." THEN 2
                   ELSE IF phase = 2 /\ in THEN 3
                   ELSE phase
       IN RootWalk(Tail(comps), next, root, ph)

LeavesAndReenters(p, root) ==
  p.abs /\ RootWalk(Components(p), <<>>, root, 0) = 3

\* The result the claim names: the virtual path of the rest of the path
\* when the root is a component prefix of it, none otherwise.
RelativeToRoot(p, root) ==
  IF p.abs /\ IsPrefix(root, Components(p))
    THEN Some(new_impl(PathStr(FALSE,
           SubSeq(Components(p), Len(root) + 1, Len(Components(p))))))
    ELSE None

\* C18 as stated: within_root gives the virtual path of the path relative to
\* the root exactly when the root is a component prefix of the path, and no
\* result otherwise, none either for a path that leaves the root through
\* ".." and enters it again.
C18_WithinRootPrefixOnly ==
  (pin.op = "within_root" /\ IsSome(pout)) =>
    /\ Unwrap(pout) = RelativeToRoot(pin.text, pin.root)
    /\ LeavesAndReenters(pin.text, pin.root) => Unwrap(pout) = None

\* C18 amended: the result is decided by the component prefix alone; a path
\* with the root as prefix that leaves the root through ".." and enters it
\* again has a result, a virtual path that starts with "..".
C18_WithinRootByPrefix ==
  (pin.op = "within_root" /\ IsSome(pout)) =>
    /\ Unwrap(pout) = RelativeToRoot(pin.text, pin.root)
    /\ (LeavesAndReenters(pin.text, pin.root) /\ IsSome(Unwrap(pout))) =>
         Head(Unwrap(Unwrap(pout)).segs) = ".."

\* C18 witness: within_root has answered for /proj/../proj/x under /proj.
C18_Witness ==
  /\ pin.op = "within_root" /\ IsSome(pout)
  /\ pin.text = PathStr(TRUE, <<"proj", "..", "proj", "x">>)
  /\ pin.root = ProjectRoot
  /\ Unwrap(pout) = Some(new_impl(PathStr(FALSE, <<"..", "proj", "x">>)))


\* The directory of a URL path: the path without its last name.
UrlDirectory(url) ==
  LET c == SelectSeq(url.segs, LAMBDA x : x # "") IN
  IF c = <<>> THEN c ELSE Front(c)

VersionOf(s) == After(s, Len(eat_until(s, ":")) + 1)
VersionPartsOf(s) == split(VersionOf(s), ".")

\* A part that is a number written without sign and without leading zero.
PlainDecimal(part) ==
  /\ part # <<>> /\ \A i \in DOMAIN part : IsDigit(part[i])
  /\ Len(part) = 1 \/ Head(part) # "0"

\* A version the claim calls a parse error: fewer or more than three parts,
\* an empty part, or a part with a character that is neither digit nor sign.
MalformedVersion(s) ==
  LET parts == VersionPartsOf(s) IN
  \/ Len(parts) # 3
  \/ \E i \in DOMAIN parts :
       \/ parts[i] = <<>>
       \/ \E j \in DOMAIN parts[i] : ~IsDigit(parts[i][j]) /\ parts[i][j] # "+"

\* The text with every version part written as a plain decimal.
Canonical(s) ==
  LET parts == VersionPartsOf(s) IN
  eat_until(s, ":") \o <<":">>
    \o JoinParts([i \in DOMAIN parts |->
                    StripZeros(IF Head(parts[i]) = "+"
                                 THEN Tail(parts[i]) ELSE parts[i])])

\* C20 as stated: a text that parses is formatted back to the same text,
\* the formatted text parses to the same value, and a malformed version is
\* a parse error.
C20_RoundTripExact ==
  (pin.op = "parse" /\ IsSome(pout)) =>
    LET out == Unwrap(pout) IN
    /\ out.parsed.ok => (out.shown = pin.chars /\ out.again = out.parsed)
    /\ MalformedVersion(pin.chars) => ~out.parsed.ok

\* C20 amended: a text that parses is formatted to its canonical text (the
\* version parts without sign and leading zeros), which is the text itself
\* exactly when its parts are written that way; the formatted text parses
\* to the same value; a malformed version is a parse error.
C20_RoundTripCanonical ==
  (pin.op = "parse" /\ IsSome(pout)) =>
    LET out == Unwrap(pout) IN
    /\ out.parsed.ok =>
         /\ out.shown = Canonical(pin.chars)
         /\ (out.shown = pin.chars) <=>
              \A i \in 1 .. 3 : PlainDecimal(VersionPartsOf(pin.chars)[i])
         /\ out.again = out.parsed
    /\ MalformedVersion(pin.chars) => ~out.parsed.ok

\* C20 witness: @ns/p:01.+1.12 has parsed and is formatted as @ns/p:1.1.12.
C20_Witness ==
  /\ pin.op = "parse" /\ IsSome(pout)
  /\ pin.chars = <<"@", "n", "s", "/", "p", ":", "0", "1", ".", "+", "1", ".",
                  "1", "2">>
  /\ Unwrap(pout).parsed.ok
  /\ Unwrap(pout).shown = <<"@", "n", "s", "/", "p", ":", "1", ".", "1", ".",
                            "1", "2">>
  /\ Unwrap(pout).again = Unwrap(pout).parsed


\* C21: the resolution of a system path goes by the handle.  A remote
\* handle, with or without a package, is resolved by the fetcher alone and
\* a path it yields is the mirror path; a non-remote handle of a package
\* asks the package resolver, whose failure is the result, and is resolved
\* against the package root; any other handle is resolved against the
\* project root without the package resolver.
C21_DispatchOnHandle ==
  (pin.op = "system_path" /\ IsSome(pout)) =>
    LET sp == Unwrap(pout)
        v  == vpath(pin.id)
        pk == package(pin.id)
    IN IF is_remote(v)
         THEN /\ sp.fetched /\ ~sp.prepared
              /\ sp.res.ok => sp.res.path = path_for(v)
       ELSE IF IsSome(pk)
         THEN /\ ~sp.fetched /\ sp.prepared
              /\ sp.res = IF pin.pkgok THEN resolve_or_deny(v, PackageRoot)
                          ELSE PathErr("Package")
       ELSE /\ ~sp.fetched /\ ~sp.prepared
            /\ sp.res = resolve_or_deny(v, ProjectRoot)

\* C21 witness: the remote handle of a package has been resolved to the
\* mirror path while the package resolver would have failed.
C21_Witness ==
  /\ pin.op = "system_path" /\ IsSome(pout)
  /\ is_remote(vpath(pin.id)) /\ IsSome(package(pin.id)) /\ ~pin.pkgok
  /\ Unwrap(pout).res = PathOk(path_for(vpath(pin.id)))
  /\ Unwrap(pout).fetched /\ ~Unwrap(pout).prepared


\* C22 as stated: a Source value is created only on the first load of a
\* handle; a later load with another fingerprint, also one that follows a
\* failed load, updates the existing value and never creates one.
C22_CreatedOnce ==
  (last.op = "source" /\ last.created) => ~last.remade

\* The cell holds a successfully parsed source.
HoldsSource(cell) == IsSome(cell.data) /\ Unwrap(cell.data).ok

\* C22 amended: a load that parses its text creates a Source value exactly
\* when the cell held no parsed source, which is the first load and every
\* load that follows a failed one; when the cell held one, the text is
\* applied to that value.
C22_CreatedWhenNoSourceHeld ==
  (last.op = "source" /\ last.hit = "miss" /\ last.result.ok) =>
    /\ last.created <=> ~HoldsSource(last.before)
    /\ HoldsSource(last.before) =>
         last.result.val =
           Source_replace(Unwrap(last.before.data).val, last.result.val.text)
    /\ last.remade =>
         IsSome(last.before.data) /\ ~Unwrap(last.before.data).ok

\* C22 witness: a Source value has been created a second time for a handle,
\* after a failed load; and elsewhere an existing one has been updated.
C22_Witness ==
  /\ last.op = "source" /\ last.hit = "miss" /\ last.result.ok
  /\ last.remade
  /\ ~Unwrap(last.before.data).ok

\* A changed load has updated the Source value the cell held.
C22_UpdateWitness ==
  /\ last.op = "source" /\ last.hit = "miss" /\ last.result.ok
  /\ HoldsSource(last.before) /\ ~last.created
  /\ last.result.val.text # Unwrap(last.before.data).val.text


\* The threads inside a load sequence: between taking the mutex and
\* dropping the guard.
Loading == {t \in Threads : th[t].pc # "idle"}

Collapsed(segs) ==
  /\ \A i \in DOMAIN segs : segs[i] # "."
  /\ \A i \in DOMAIN segs :
       (segs[i] = ".." /\ i > 1) => segs[i - 1] = ".."

\* An absolute filesystem-style path: a file URL without a host.
IsFilePath(v) == v.scheme = "file" /\ v.host = "" /\ Collapsed(v.segs)

\* C24: a virtual path made by VirtualPath::new and join is either a remote
\* URL (http or https) or an absolute filesystem-style path without "." and
\* without ".." after a normal component; text is kept as a URL only when
\* it is an http or https URL, and is_remote holds exactly for those.
C24_RemoteOrFilePath ==
  (pin.op = "join" /\ IsSome(pout)) =>
    \A v \in {new_impl(pin.text), Unwrap(pout)} :
      /\ is_remote(v) \/ IsFilePath(v)
      /\ is_remote(v) <=> v.scheme \in {"http", "https"}
      /\ (v.scheme # "file" \/ v.host # "") => is_remote(v)

\* The same when no argument is URL text of another scheme than http(s).
C24_WithoutOtherUrls ==
  (pin.op = "join" /\ IsSome(pout) /\ pin.arg \notin OtherUrlTexts) =>
    C24_RemoteOrFilePath


\* C25: for a URL with a host, path_for lies inside the mirror root, under
\* the directory of the host, also when the URL path starts with two
\* slashes; and a fetch installs no file outside the mirror root.
C25_InsideMirrorRoot ==
  /\ (pin.op = "path_for" /\ IsSome(pout) /\ Unwrap(pout).can) =>
       IsPrefix(MirrorRoot \o <<pin.text.host>>, Unwrap(pout).path)
  /\ (pin.op = "system_path" /\ IsSome(pout)) =>
       \A p \in DOMAIN fsys :
         (FsGet(fsys, p).kind = "file" /\ p \notin {MainPath, LibPath})
           => IsPrefix(MirrorRoot, p)

\* The same for the URLs whose path does not start with two slashes.
C25_SingleSlashInside ==
  LET double(segs) == segs # <<>> /\ Head(segs) = "" IN
  /\ (pin.op = "path_for" /\ ~double(pin.text.segs)) => C25_InsideMirrorRoot
  /\ (pin.op = "system_path" /\ ~double(vpath(pin.id).segs))
       => C25_InsideMirrorRoot


\* C26: dependencies() only reads: it makes no fetch and no call of the
\* package resolver, and leaves the file system with the mirror and every
\* slot as they are, also when a slot accessed belongs to a remote handle.
C26_DependenciesReadOnly ==
  [][(last' # last /\ last'.op = "dependencies") =>
       /\ ~last'.fetched /\ ~last'.prepared
       /\ fsys' = fsys /\ slots' = slots /\ ~crashed']_vars

\* The same for the sessions whose accessed slots are files of the project.
C26_ProjectFilesReadOnly ==
  [][(last' # last /\ last'.op = "dependencies"
        /\ \A id \in last'.accessed :
             ~is_remote(vpath(id)) /\ ~IsSome(package(id))) =>
       /\ ~last'.fetched /\ ~last'.prepared
       /\ fsys' = fsys /\ slots' = slots /\ ~crashed']_vars


\* The read results of a session: the bytes of a file, or a failure of the
\* resolution or of the read.
ReadResults ==
  {RdOk(b) : b \in {<<>>, <<"a">>, <<"BAD">>, <<"BOM", "a">>}}
    \cup {RdErr(e) : e \in {"NotFound", "IsDirectory", "AccessDenied", "Package"}}

\* `data` is a result computed from the read result `rd` for a cell of `kind`.
ComputedFrom(kind, id, rd, data) ==
  IF ~rd.ok THEN data = Err(rd.err)
  ELSE IF kind = "file" THEN data = Ok([bytes |-> rd.val])
  ELSE LET text == decode_utf8(rd.val) IN
       IF text.ok THEN data = Ok([id |-> id, text |-> text.val])
       ELSE data = Err(text.err)

\* Every cell with a cached result holds the fingerprint of the read result
\* the cached result was computed from.
FingerprintOfCached ==
  \A id \in DOMAIN slots, kind \in Kinds :
    LET cell == slots[id][kind] IN
    IsSome(cell.data) =>
      \E rd \in ReadResults :
        /\ cell.fingerprint = hash128(rd)
        /\ ComputedFrom(kind, id, rd, Unwrap(cell.data))

\* C27: after any loads and resets, a cell with a cached result holds the
\* fingerprint of the read result that cached result was computed from;
\* every load request, successful or failed, leaves the accessed flag of
\* its cell true, and only a reset makes a flag false.
C27_FingerprintAndAccessed ==
  [][/\ FingerprintOfCached'
     /\ (last' # last /\ last'.op \in Kinds) =>
          slots'[last'.id][last'.op].accessed
     /\ \A id \in DOMAIN slots, kind \in Kinds :
          (slots[id][kind].accessed /\ ~slots'[id][kind].accessed)
            => last'.op = "reset"]_vars

\* C27 witness: a failed load has left its cell accessed with the
\* fingerprint of the failure, after the cell held a parsed source.
C27_Witness ==
  /\ last.op = "source" /\ last.hit = "miss" /\ ~last.result.ok
  /\ HoldsSource(last.before)
  /\ slots[last.id].source.accessed
  /\ slots[last.id].source.fingerprint = hash128(Unwrap(last.read))
  /\ slots[last.id].source.data = Some(Err(Unwrap(last.read).err))

====
